---- MODULE Spec2Model ----
(***************************************************************************)
(* Model of fs-cache.  The first part is the document collection engine    *)
(* (Memgodb): the process-wide MemgodbStorage slice, the Insert / Filter / *)
(* Delete / Update builders and their terminal methods, Persist and        *)
(* LoadDefault.                                                            *)
(*                                                                         *)
(* Values are tagged pairs <<type, payload>> so that Go's interface        *)
(* equality (same dynamic type and same value) and the type narrowing of   *)
(* the encoding/json round trip are both part of the model.                *)
(* MemgodbStorage is kept as a backing array and a length, because the     *)
(* delete loops compact and re-slice it in place.                          *)
(*                                                                         *)
(* Spec runs the in-memory calls (Insert.One, Filter.First, Filter.All,    *)
(* Delete.One, Delete.All, Update.One), each builder call chained with its *)
(* terminal method as one step.                                            *)
(* SpecNames runs inserts, finds and deletes through handles made by       *)
(* Memgodb.Collection from raw names.                                      *)
(* SpecSnap runs inserts and deletes with Persist, LoadDefault and the     *)
(* start of a new process.                                                 *)
(* SpecMany runs Insert.Many with Insert.One and Delete.All.               *)
(* SpecConc runs Insert.One from two goroutines, one memory access of the  *)
(* append at a time.                                                       *)
(* SpecHeld runs Delete and Update builders that a caller keeps while      *)
(* other calls change the store.                                           *)
(*                                                                         *)
(* The second part models Memdis, the key/value store of memdis.go, whose  *)
(* storage is a sequence of maps key -> (Value, Duration); SpecMemdis runs *)
(* its methods and the passage of time.                                    *)
(***************************************************************************)
EXTENDS Integers, Sequences, FiniteSets, TLC

\* ------------------------------------------------------------------ bounds
\* largest number of records the store may hold (guards the appending actions)
MaxStore == 3
\* number of uuid.New() / time.Now() draws (guards Insert and Update)
MaxClock == 3

\* ------------------------------------------------------------------ values
Null == <<"null", 0>>
Str(s) == <<"str", s>>
IntV(n) == <<"int", n>>
Float(n) == <<"float", n>>
\* uuid.New(): a fresh uuid.UUID, n is the draw number
UUID(n) == <<"uuid", n>>
\* time.Now(): a time.Time, n is the clock reading
Time(n) == <<"time", n>>
\* JSON text of a uuid / a time, as a Go string after Unmarshal
UUIDStr(n) == <<"uuidstr", n>>
TimeStr(n) == <<"timestr", n>>

\* a nil map[string]interface{} (reads as a map without keys)
NilRec == << >>
\* a nil filter / nil Insert.obj
NIL == [nil |-> TRUE]

Collections == {"users", "orders"}
SystemKeys == {"colName", "id", "createdAt", "updatedAt"}

John == [name |-> Str("John"), age |-> IntV(35)]
Jane == [name |-> Str("Jane"), age |-> Float(35), colName |-> Str("users")]
\* the values handed to Insert(obj)
InputRecords == {John, Jane}
\* the calls c.Insert(obj).One() made: <<name of the handle c, obj>>
InsertCalls == {<<"users", John>>, <<"users", Jane>>, <<"orders", Jane>>}

\* the maps handed to Filter / Delete / Update as filter
Filters ==
  { [name |-> Str("John")],
    [age |-> Float(35)],
    [name |-> Str("Jane"), age |-> Float(35)] }

\* the maps handed to Update as obj
Patches ==
  { NilRec,
    [age |-> Float(40)],
    [name |-> Str("Jane"), age |-> Float(40)] }

\* ------------------------------------------------------- json round trip
\* json.Marshal followed by json.Unmarshal into interface{}: every number
\* becomes a float64, a uuid.UUID and a time.Time become strings
jsonValue(v) ==
  CASE v[1] = "int"  -> Float(v[2])
    [] v[1] = "uuid" -> UUIDStr(v[2])
    [] v[1] = "time" -> TimeStr(v[2])
    [] OTHER         -> v

\* Collection.decode
decode(obj) == [k \in DOMAIN obj |-> jsonValue(obj[k])]

\* Collection.decodeMany (the nil-ness of the result is objMapsNil below)
decodeMany(arr) == [i \in 1..Len(arr) |-> decode(arr[i])]

\* ------------------------------------------------------------------ state
VARIABLES
  storageArr,          \* backing array of MemgodbStorage (its length is cap)
  storageLen,          \* len(MemgodbStorage)
  persistMemgodbData,  \* the package flag set by Persist
  file,                \* ./memgodbstorage.json: [exists, data]
  clock,               \* number of uuid.New() / time.Now() draws so far
  storage,             \* md.storage of the Memdis instance
  timeNow,             \* the wall clock read by time.Now() in Memdis
  thread,              \* the locals of each goroutine inside Insert.One
  before,              \* MemgodbStorage when the goroutines were started
  builder,             \* the *Delete / *Update a caller holds, if any
  ret                  \* what the last call returned: [op, err, res]

vars == <<storageArr, storageLen, persistMemgodbData, file, clock,
          storage, timeNow, thread, before, builder, ret>>

\* the state of the document store and the state of the key/value store
memgodbVars == <<storageArr, storageLen, persistMemgodbData, file, clock>>
memdisVars == <<storage, timeNow>>
\* calls in progress: goroutines inside Insert.One, a builder not yet used
callVars == <<thread, before, builder>>

\* the goroutines that call Insert.One side by side
Threads == {1, 2}
\* a goroutine that is not inside a call
Idle == [pc |-> "idle", col |-> "", obj |-> NilRec, objMap |-> NilRec,
         arr |-> << >>, len |-> 0, fresh |-> FALSE]
\* no builder is held
NoBuilder == [kind |-> "none"]

\* the slice the program sees
MemgodbStorage == SubSeq(storageArr, 1, storageLen)

\* MemgodbStorage == nil (a slice of this program is nil iff its cap is 0)
StorageIsNil == Len(storageArr) = 0

Return(op, err, res) == [op |-> op, err |-> err, res |-> res]

\* a panic ends the process: nothing in the package recovers
Crashed == ret.err = "panic"

\* room for n more records and one more uuid.New() / time.Now() draw
Room(n) == storageLen + n <= MaxStore /\ clock < MaxClock

Init ==
  /\ storageArr = << >>
  /\ storageLen = 0
  /\ persistMemgodbData = FALSE
  /\ file = [exists |-> FALSE, data |-> << >>]
  /\ clock = 0
  /\ storage = << >>
  /\ timeNow = 0
  /\ thread = [t \in Threads |-> Idle]
  /\ before = << >>
  /\ builder = NoBuilder
  /\ ret = Return("init", "ok", << >>)

\* ---------------------------------------------------------- Go slices
\* growslice for a slice of cap < 256: twice the old cap, or the needed
\* length when that is larger
growCap(cap, needed) == IF needed > 2 * cap THEN needed ELSE 2 * cap

\* append(s, xs...) for the slice (arr, len): in place when it fits, else a
\* fresh array whose unused slots are nil
appendSlice(arr, len, xs) ==
  LET needed == len + Len(xs) IN
  IF Len(xs) = 0 THEN [arr |-> arr, len |-> len]
  ELSE IF needed <= Len(arr)
    THEN [arr |-> [i \in 1..Len(arr) |->
                     IF i > len /\ i <= needed THEN xs[i - len] ELSE arr[i]],
          len |-> needed]
    ELSE [arr |-> [i \in 1..growCap(Len(arr), needed) |->
                     IF i <= len THEN arr[i]
                     ELSE IF i <= needed THEN xs[i - len] ELSE NilRec],
          len |-> needed]

\* ---------------------------------------------------------- Insert.One
\* stored, keeping a colName that obj already carries
storedKeepsColName(col, obj, now) ==
  LET objMap == decode(obj) IN
  [k \in DOMAIN objMap \cup SystemKeys |->
     CASE k = "colName"   -> IF k \in DOMAIN objMap THEN objMap[k] ELSE Str(col)
       [] k = "id"        -> UUID(now)
       [] k = "createdAt" -> Time(now)
       [] k = "updatedAt" -> Null
       [] OTHER           -> objMap[k]]

\* the record Insert.One stores for obj through a handle named col
stored(col, obj, now) ==
  LET objMap == decode(obj) IN
  [k \in DOMAIN objMap \cup SystemKeys |->
     CASE k = "colName"   -> Str(col)
       [] k = "id"        -> UUID(now)
       [] k = "createdAt" -> Time(now)
       [] k = "updatedAt" -> Null
       [] OTHER           -> objMap[k]]

InsertOne(col, obj) ==
  /\ ~Crashed
  /\ UNCHANGED <<memdisVars, callVars>>
  /\ Room(1)
  /\ LET rec == stored(col, obj, clock + 1)
         s == appendSlice(storageArr, storageLen, <<rec>>) IN
       /\ storageArr' = s.arr
       /\ storageLen' = s.len
       /\ ret' = Return("InsertOne", "ok", <<rec>>)
  /\ clock' = clock + 1
  /\ UNCHANGED <<persistMemgodbData, file>>

\* Insert(nil).One()
InsertOneNil(col) ==
  /\ ~Crashed
  /\ UNCHANGED <<memdisVars, callVars>>
  /\ ret' = Return("InsertOne", "invalid", << >>)
  /\ UNCHANGED <<storageArr, storageLen, persistMemgodbData, file, clock>>

\* ---------------------------------------------------------- matching
IsNil(x) == "nil" \in DOMAIN x

\* matchKeys without the test of item["colName"]
matchKeysUnscoped(item, col, filter) ==
  {k \in DOMAIN filter : k \in DOMAIN item /\ item[k] = filter[k]}

\* the filter keys for which the loops of First / All / One take the branch
\* `item["colName"] == collectionName` and `v, ok := item[key]; ok && val == v`
matchKeys(item, col, filter) ==
  IF "colName" \in DOMAIN item /\ item["colName"] = Str(col)
    THEN {k \in DOMAIN filter : k \in DOMAIN item /\ item[k] = filter[k]}
    ELSE {}

\* objMaps == nil in a builder made by Filter / Delete / Update: the filter
\* is nil, or decodeMany saw the JSON text null of a nil MemgodbStorage
objMapsNil(filter) == IsNil(filter) \/ StorageIsNil

\* ---------------------------------------------------------- Filter
\* Filter.First: the first item with a matching key
First(objMaps, col, filter) ==
  LET hits == {i \in 1..Len(objMaps) : matchKeys(objMaps[i], col, filter) # {}} IN
  IF hits = {}
    THEN [err |-> "notfound", res |-> << >>]
    ELSE [err |-> "ok",
          res |-> <<objMaps[CHOOSE i \in hits : \A j \in hits : i <= j]>>]

\* n copies of item
RECURSIVE repeat(_, _)
repeat(item, n) == IF n = 0 THEN << >> ELSE <<item>> \o repeat(item, n - 1)

\* Filter.All: the inner loop appends the item once for each matching key
RECURSIVE allFrom(_, _, _, _)
allFrom(objMaps, i, col, filter) ==
  IF i > Len(objMaps) THEN << >>
  ELSE repeat(objMaps[i], Cardinality(matchKeys(objMaps[i], col, filter)))
         \o allFrom(objMaps, i + 1, col, filter)

All(objMaps, col, filter) ==
  LET foundObj == allFrom(objMaps, 1, col, filter) IN
  IF foundObj = << >>
    THEN [err |-> "notfound", res |-> << >>]
    ELSE [err |-> "ok", res |-> foundObj]

\* what c.Filter(filter).First() returns in the current state
FilterFirst(col, filter) ==
  IF objMapsNil(filter)
    THEN [err |-> "nilfilter", res |-> << >>]
    ELSE First(decodeMany(MemgodbStorage), col, filter)

\* what c.Filter(filter).All() returns in the current state; with nil objMaps
\* it is the JSON round trip of the whole MemgodbStorage
FilterAll(col, filter) ==
  IF objMapsNil(filter)
    THEN [err |-> "ok", res |-> decodeMany(MemgodbStorage)]
    ELSE All(decodeMany(MemgodbStorage), col, filter)

\* c.Filter(filter).First()
FindFirst(col, filter) ==
  /\ ~Crashed
  /\ UNCHANGED <<memdisVars, callVars>>
  /\ LET r == FilterFirst(col, filter) IN ret' = Return("FindFirst", r.err, r.res)
  /\ UNCHANGED <<storageArr, storageLen, persistMemgodbData, file, clock>>

\* c.Filter(filter).All()
FindAll(col, filter) ==
  /\ ~Crashed
  /\ UNCHANGED <<memdisVars, callVars>>
  /\ LET r == FilterAll(col, filter) IN ret' = Return("FindAll", r.err, r.res)
  /\ UNCHANGED <<storageArr, storageLen, persistMemgodbData, file, clock>>

\* ---------------------------------------------------------- Delete
\* one pass through the matching branch of Delete.One / Delete.All on the
\* live slice s = (arr, len), with index the loop variable (0-based):
\*   index < len-1 : append(s[:index], s[index+1:]...) shifts in place and
\*                   leaves the old last element behind the new length
\*   otherwise     : s = s[:index]
\* slicing panics when index is negative or beyond cap(s)
deleteAt(s, index) ==
  IF index < 0 \/ index > Len(s.arr)
    THEN [s EXCEPT !.panic = TRUE]
    ELSE IF index < s.len - 1
      THEN [s EXCEPT !.arr = [j \in 1..Len(s.arr) |->
                                IF j > index /\ j < s.len THEN s.arr[j + 1] ELSE s.arr[j]],
                     !.len = s.len - 1]
      ELSE [s EXCEPT !.len = index]

\* the loop over the filter keys of Delete.All for one item: n keys match;
\* `index--` after a shift changes the loop variable for the keys that follow
\* in the same item (the range statement resets it for the next item)
RECURSIVE deleteTimes(_, _, _)
deleteTimes(s, index, n) ==
  IF n = 0 \/ s.panic THEN s
  ELSE deleteTimes(deleteAt(s, index),
                   IF index < s.len - 1 THEN index - 1 ELSE index,
                   n - 1)

\* the range loop over d.objMaps; `break` leaves only the loop over the
\* filter keys, so One goes on to the next items after its first deletion and
\* deletes once for every item with a matching key, All once for every
\* matching key
RECURSIVE deleteLoop(_, _, _, _, _, _)
deleteLoop(objMaps, i, col, filter, one, s) ==
  IF i > Len(objMaps) \/ s.panic THEN s
  ELSE LET n == Cardinality(matchKeys(objMaps[i], col, filter))
           times == IF one /\ n > 0 THEN 1 ELSE n
           t == deleteTimes(s, i - 1, times) IN
       deleteLoop(objMaps, i + 1, col, filter, one,
                  IF n > 0 THEN [t EXCEPT !.notFound = FALSE] ELSE t)

deleteRun(objMaps, col, filter, one) ==
  deleteLoop(objMaps, 1, col, filter, one,
             [arr |-> storageArr, len |-> storageLen, notFound |-> TRUE, panic |-> FALSE])

deleteErr(s) == IF s.panic THEN "panic" ELSE IF s.notFound THEN "notfound" ELSE "ok"

\* c.Delete(filter).One()
DeleteOne(col, filter) ==
  /\ ~Crashed
  /\ UNCHANGED <<memdisVars, callVars>>
  /\ IF objMapsNil(filter)
       THEN /\ ret' = Return("DeleteOne", "nilfilter", << >>)
            /\ UNCHANGED <<storageArr, storageLen>>
       ELSE LET s == deleteRun(decodeMany(MemgodbStorage), col, filter, TRUE) IN
            /\ storageArr' = s.arr
            /\ storageLen' = s.len
            /\ ret' = Return("DeleteOne", deleteErr(s), << >>)
  /\ UNCHANGED <<persistMemgodbData, file, clock>>

\* c.Delete(filter).All()
DeleteAll(col, filter) ==
  /\ ~Crashed
  /\ UNCHANGED <<memdisVars, callVars>>
  /\ IF objMapsNil(filter)
       THEN /\ ret' = Return("DeleteAll", "ok", << >>)
            /\ storageLen' = 0
            /\ UNCHANGED storageArr
       ELSE LET s == deleteRun(decodeMany(MemgodbStorage), col, filter, FALSE) IN
            /\ storageArr' = s.arr
            /\ storageLen' = s.len
            /\ ret' = Return("DeleteAll", deleteErr(s), << >>)
  /\ UNCHANGED <<persistMemgodbData, file, clock>>

\* ---------------------------------------------------------- Update
\* item[k] = v on a Go map
put(item, k, v) == [x \in DOMAIN item \cup {k} |-> IF x = k THEN v ELSE item[x]]

\* the range loop of Update.One over u.objMaps.  key and updateValue are the
\* first matching filter key and the first patch value in Go's (unspecified)
\* map iteration order; counter only grows inside the loop over u.update, so
\* with an empty patch every matching item gets a new updatedAt.  The write
\* MemgodbStorage[index] = item panics when index >= len(MemgodbStorage).
RECURSIVE updateLoop(_, _, _, _, _, _, _, _)
updateLoop(objMaps, i, col, filter, patchEmpty, key, updateValue, s) ==
  IF i > Len(objMaps) \/ s.panic THEN s
  ELSE IF matchKeys(objMaps[i], col, filter) = {}
    THEN updateLoop(objMaps, i + 1, col, filter, patchEmpty, key, updateValue, s)
  ELSE LET item == IF s.counter < 1
                     THEN put(IF patchEmpty THEN objMaps[i]
                                            ELSE put(objMaps[i], key, updateValue),
                              "updatedAt", Time(s.now))
                     ELSE objMaps[i]
           t == IF i - 1 >= s.len
                  THEN [s EXCEPT !.panic = TRUE, !.notFound = FALSE]
                  ELSE [s EXCEPT !.arr[i] = item, !.notFound = FALSE,
                                 !.counter = IF patchEmpty THEN 0 ELSE 1] IN
       updateLoop(objMaps, i + 1, col, filter, patchEmpty, key, updateValue, t)

\* the first item of objMaps with a matching key (0 when there is none)
firstHit(objMaps, col, filter) ==
  LET hits == {i \in 1..Len(objMaps) : matchKeys(objMaps[i], col, filter) # {}} IN
  IF hits = {} THEN 0 ELSE CHOOSE i \in hits : \A j \in hits : i <= j

Range(f) == {f[x] : x \in DOMAIN f}

\* c.Update(filter, obj).One()
UpdateOne(col, filter, patch) ==
  /\ ~Crashed
  /\ UNCHANGED <<memdisVars, callVars>>
  /\ UNCHANGED <<persistMemgodbData, file>>
  /\ IF objMapsNil(filter)
       THEN /\ ret' = Return("UpdateOne", "nilfilter", << >>)
            /\ UNCHANGED <<storageArr, storageLen, clock>>
       ELSE LET objMaps == decodeMany(MemgodbStorage)
                h == firstHit(objMaps, col, filter) IN
            IF h = 0
              THEN /\ ret' = Return("UpdateOne", "notfound", << >>)
                   /\ UNCHANGED <<storageArr, storageLen, clock>>
              ELSE /\ Room(0)
                   /\ \E key \in matchKeys(objMaps[h], col, filter),
                         updateValue \in Range(patch) \cup {Null} :
                        /\ (Range(patch) # {}) => updateValue \in Range(patch)
                        /\ LET s == updateLoop(objMaps, 1, col, filter, Range(patch) = {},
                                               key, updateValue,
                                               [arr |-> storageArr, len |-> storageLen,
                                                notFound |-> TRUE, counter |-> 0,
                                                now |-> clock + 1, panic |-> FALSE]) IN
                             /\ storageArr' = s.arr
                             /\ storageLen' = s.len
                             /\ ret' = Return("UpdateOne",
                                             IF s.panic THEN "panic" ELSE "ok", << >>)
                   /\ clock' = clock + 1

\* ---------------------------------------------------------- snapshot
\* jsonByte of Persist taken from the whole backing array
jsonByteOfArray == decodeMany(storageArr)

\* jsonByte of Persist: the JSON text of MemgodbStorage, kept as the values
\* json.Unmarshal reads back from it
jsonByte == decodeMany(MemgodbStorage)

\* Memgodb.Persist: nothing happens for a nil MemgodbStorage; otherwise the
\* file is created anew with the JSON text of the whole slice
Persist ==
  /\ ~Crashed
  /\ UNCHANGED <<memdisVars, callVars>>
  /\ IF StorageIsNil
       THEN UNCHANGED <<persistMemgodbData, file>>
       ELSE /\ persistMemgodbData' = TRUE
            /\ file' = [exists |-> TRUE, data |-> jsonByte]
  /\ ret' = Return("Persist", "ok", << >>)
  /\ UNCHANGED <<storageArr, storageLen, clock>>

\* what Memgodb.LoadDefault does to the slice (arr, len) with the file
\* Persist wrote (always a JSON array): the decoded elements are appended as
\* they are; without the file the call fails
loadDefault(arr, len) ==
  IF ~file.exists
    THEN [err |-> "nofile", arr |-> arr, len |-> len]
    ELSE LET s == appendSlice(arr, len, file.data) IN
         [err |-> "ok", arr |-> s.arr, len |-> s.len]

\* Memgodb.LoadDefault
LoadDefault ==
  /\ ~Crashed
  /\ UNCHANGED <<memdisVars, callVars>>
  /\ file.exists => Room(Len(file.data))
  /\ LET r == loadDefault(storageArr, storageLen) IN
       /\ storageArr' = r.arr
       /\ storageLen' = r.len
       /\ ret' = Return("LoadDefault", r.err, << >>)
  /\ UNCHANGED <<persistMemgodbData, file, clock>>

\* a new process: the package variables and the Memdis instance start at their
\* zero values and no call is in progress, the snapshot file stays where it
\* is (clock keeps counting: uuid.New() and time.Now() do not repeat across
\* processes)
Restart ==
  /\ storageArr' = << >>
  /\ storageLen' = 0
  /\ persistMemgodbData' = FALSE
  /\ storage' = << >>
  /\ thread' = [t \in Threads |-> Idle]
  /\ before' = << >>
  /\ builder' = NoBuilder
  /\ ret' = Return("init", "ok", << >>)
  /\ UNCHANGED <<file, clock, timeNow>>

Next ==
  \/ \E call \in InsertCalls : InsertOne(call[1], call[2])
  \/ \E col \in Collections : InsertOneNil(col)
  \/ \E col \in Collections, filter \in Filters \cup {NIL} : FindFirst(col, filter)
  \/ \E col \in Collections, filter \in Filters \cup {NIL} : FindAll(col, filter)
  \/ \E col \in Collections, filter \in Filters \cup {NIL} : DeleteOne(col, filter)
  \/ \E col \in Collections, filter \in Filters \cup {NIL} : DeleteAll(col, filter)
  \/ \E col \in Collections, filter \in Filters \cup {NIL}, patch \in Patches :
       UpdateOne(col, filter, patch)

Spec == Init /\ [][Next]_vars

\* ---------------------------------------------------------- Collection
\* A name handed to Memgodb.Collection is a sequence of one-character strings.
upper == <<"A","B","C","D","E","F","G","H","I","J","K","L","M",
           "N","O","P","Q","R","S","T","U","V","W","X","Y","Z">>
lower == <<"a","b","c","d","e","f","g","h","i","j","k","l","m",
           "n","o","p","q","r","s","t","u","v","w","x","y","z">>

\* strings.ToLower
RECURSIVE ToLower(_)
ToLower(s) ==
  IF s = << >> THEN << >>
  ELSE <<IF \E i \in 1..26 : upper[i] = Head(s)
           THEN lower[CHOOSE i \in 1..26 : upper[i] = Head(s)]
           ELSE Head(s)>> \o ToLower(Tail(s))

\* the Go string spelled by a sequence of characters
RECURSIVE text(_)
text(s) == IF s = << >> THEN "" ELSE Head(s) \o text(Tail(s))

\* colName of Memgodb.Collection without the appended "s"
colNameNoPlural(col) == ToLower(col)

\* colName of Memgodb.Collection for a string col: lower case, with an "s"
\* appended unless it is empty or already ends in "s"
colName(col) ==
  LET l == ToLower(col) IN
  IF Len(l) > 0 /\ l[Len(l)] # "s" THEN Append(l, "s") ELSE l

\* Memgodb.Collection(col).collectionName
Collection(col) == text(colName(col))

\* the names handles are made from
Names ==
  { <<"u","s","e","r">>, <<"U","s","e","r","s">>,
    <<"O","r","d","e","r">>, <<"o","r","d","e","r","s">> }

\* the in-memory calls made through handles built by Memgodb.Collection
NextNames ==
  \/ \E name \in Names, obj \in InputRecords : InsertOne(Collection(name), obj)
  \/ \E name \in Names, filter \in Filters \cup {NIL} :
       FindFirst(Collection(name), filter)
  \/ \E name \in Names, filter \in Filters \cup {NIL} :
       FindAll(Collection(name), filter)
  \/ \E name \in Names, filter \in Filters \cup {NIL} :
       DeleteAll(Collection(name), filter)

SpecNames == Init /\ [][NextNames]_vars

\* ---------------------------------------------------------- snapshot runs
\* the calls of the runs that save and load: <<name of the handle, obj>>
SnapInserts == {<<"users", John>>, <<"orders", Jane>>}
\* the filters of the deletes made through the handle "users"
SnapFilters == {[name |-> Str("John")], NIL}

NextSnap ==
  \/ \E call \in SnapInserts : InsertOne(call[1], call[2])
  \/ \E filter \in SnapFilters : DeleteAll("users", filter)
  \/ Persist
  \/ LoadDefault
  \/ Restart

SpecSnap == Init /\ [][NextSnap]_vars

\* ---------------------------------------------------------- Insert.Many
\* an element whose JSON text is not an object (a number, a string, a list)
NotObject == [notObject |-> TRUE]
IsNotObject(x) == "notObject" \in DOMAIN x

\* the slices handed to Many: up to MaxMany elements, each a record, nil or
\* a value that is not an object
MaxMany == 2
ManyElements == InputRecords \cup {NIL, NotObject}
ManyArrays == UNION {[1..n -> ManyElements] : n \in 0..MaxMany}

\* the values handed to Insert(obj) before Many: nil, or a record
ManyObjs == {NIL, John}

\* the loop of Many over arrObjs, each element going through
\* Insert(obj).One().  A nil element is a nil map after decodeMany; One()
\* decodes it to a nil objMap and panics on objMap["colName"] = ..., after
\* the elements before it were appended.
RECURSIVE manyLoop(_, _, _, _)
manyLoop(col, arr, i, s) ==
  IF i > Len(arr) \/ s.panic THEN s
  ELSE IF IsNil(arr[i]) THEN [s EXCEPT !.panic = TRUE]
  ELSE LET rec == stored(col, arr[i], s.now + 1)
           t == appendSlice(s.arr, s.len, <<rec>>) IN
       manyLoop(col, arr, i + 1,
                [s EXCEPT !.arr = t.arr, !.len = t.len, !.now = s.now + 1,
                          !.savedData = Append(s.savedData, rec)])

\* c.Insert(obj).Many(arr)
InsertMany(col, obj, arr) ==
  /\ ~Crashed
  /\ UNCHANGED <<memdisVars, callVars>>
  /\ storageLen + Len(arr) <= MaxStore
  /\ clock + Len(arr) <= MaxClock
  /\ UNCHANGED <<persistMemgodbData, file>>
  /\ IF ~IsNil(obj)
       THEN /\ ret' = Return("InsertMany", "conflict", << >>)
            /\ UNCHANGED <<storageArr, storageLen, clock>>
       ELSE IF \E j \in 1..Len(arr) : IsNotObject(arr[j])
         THEN /\ ret' = Return("InsertMany", "invalid", << >>)
              /\ UNCHANGED <<storageArr, storageLen, clock>>
         ELSE LET s == manyLoop(col, arr, 1,
                                [arr |-> storageArr, len |-> storageLen, now |-> clock,
                                 savedData |-> << >>, panic |-> FALSE]) IN
              /\ storageArr' = s.arr
              /\ storageLen' = s.len
              /\ clock' = s.now
              /\ ret' = IF s.panic THEN Return("InsertMany", "panic", << >>)
                                   ELSE Return("InsertMany", "ok", s.savedData)

\* the calls of the runs with Many
NextMany ==
  \/ \E call \in InsertCalls : InsertOne(call[1], call[2])
  \/ \E col \in Collections, obj \in ManyObjs, arr \in ManyArrays :
       InsertMany(col, obj, arr)
  \/ \E col \in Collections, filter \in Filters \cup {NIL} : DeleteAll(col, filter)

SpecMany == Init /\ [][NextMany]_vars

\* ================================================= Memdis (key/value store)
\* largest len(md.storage) (guards the appending calls)
MaxEntries == 3
\* last reading of the wall clock (guards Tick)
MaxTime == 2

MdKeys == {"k1", "k2"}
V1 == Str("value1")
V2 == IntV(10)

\* MemdisData{Value, Duration}: Duration is the expiry timestamp
MemdisData(value, duration) == [Value |-> value, Duration |-> duration]

\* the calls Set(key, value, duration...) made: <<key, value, ttl>>; ttl 0
\* also stands for a call without duration
SetCalls == {<<"k1", V1, 1>>, <<"k1", V2, 0>>, <<"k2", V1, 0>>}

\* the calls OverWrite(key, value, duration...) made
OverWriteCalls == {<<"k1", V2, 0>>, <<"k2", V2, 1>>}

\* the calls OverWriteWithKey(prevkey, newKey, value, duration...) made
OverWriteWithKeyCalls == {<<"k1", "k2", V2, 0>>, <<"k2", "k1", V1, 1>>}

\* the slices handed to SetMany: a map of one key, a map of two keys (as in
\* TestSetMany) and two maps with the same key
SetManyData ==
  { << "k1" :> MemdisData(V2, 1) >>,
    << ("k1" :> MemdisData(V1, 1)) @@ ("k2" :> MemdisData(V2, 0)) >>,
    << "k2" :> MemdisData(V1, 0), "k2" :> MemdisData(V2, 0) >> }

\* md.storage is kept as the sequence of its maps, without its backing
\* array: no call of Memdis reads the array behind len(md.storage), except
\* the loop of OverWrite / OverWriteWithKey, which keeps the array it started
\* with for the length of the call (overWriteLoop).

\* the loop at the head of Set finds key in no map
keyExistsNever(key) == FALSE

\* the loop at the head of Set: key is in one of the maps of md.storage
keyExists(key) == \E i \in 1..Len(storage) : key \in DOMAIN storage[i]

\* Memdis.Set
Set(key, value, ttl) ==
  /\ ~Crashed
  /\ UNCHANGED <<memgodbVars, callVars>>
  /\ UNCHANGED timeNow
  /\ IF keyExists(key)
       THEN /\ ret' = Return("Set", "keyexists", << >>)
            /\ UNCHANGED storage
       ELSE /\ Len(storage) < MaxEntries
            /\ LET fs == key :> MemdisData(value, timeNow + ttl) IN
                 storage' = Append(storage, fs)
            /\ ret' = Return("Set", "ok", << >>)

\* Memdis.KeyValuePairs: one map of key -> Value for every map of storage
KeyValuePairs(st) ==
  [i \in 1..Len(st) |-> [k \in DOMAIN st[i] |-> st[i][k].Value]]

\* Memdis.SetMany: the maps are appended as they are
SetMany(data) ==
  /\ ~Crashed
  /\ UNCHANGED <<memgodbVars, callVars>>
  /\ UNCHANGED timeNow
  /\ Len(storage) + Len(data) <= MaxEntries
  /\ storage' = storage \o data
  /\ ret' = Return("SetMany", "ok", KeyValuePairs(storage \o data))

\* the first index (1-based) of storage whose map holds key, 0 if none
firstWith(key) ==
  IF \E i \in 1..Len(storage) : key \in DOMAIN storage[i]
    THEN CHOOSE i \in 1..Len(storage) :
           /\ key \in DOMAIN storage[i]
           /\ \A j \in 1..(i - 1) : key \notin DOMAIN storage[j]
    ELSE 0

\* what Memdis.Get(key) returns in the current state, with a test of the
\* expiry timestamp against the wall clock
getUnexpired(key) ==
  IF firstWith(key) = 0 \/ storage[firstWith(key)][key].Duration < timeNow
    THEN [err |-> "keynotfound", res |-> << >>]
    ELSE [err |-> "ok", res |-> <<storage[firstWith(key)][key].Value>>]

\* what Memdis.Get(key) returns in the current state
get(key) ==
  IF firstWith(key) = 0
    THEN [err |-> "keynotfound", res |-> << >>]
    ELSE [err |-> "ok", res |-> <<storage[firstWith(key)][key].Value>>]

\* Memdis.Get
Get(key) ==
  /\ ~Crashed
  /\ ret' = Return("Get", get(key).err, get(key).res)
  /\ UNCHANGED <<memgodbVars, memdisVars, callVars>>

\* what Memdis.Size returns in the current state
size == Len(storage)

\* Memdis.Size
Size ==
  /\ ~Crashed
  /\ ret' = Return("Size", "ok", <<size>>)
  /\ UNCHANGED <<memgodbVars, memdisVars, callVars>>

\* md.storage = append(md.storage[:index], md.storage[index+1:]...) on the
\* slice s = (arr, len), i being index + 1: the maps behind i move one place
\* down in the same array and the old last map stays behind the new length;
\* md.storage[index+1:] panics when index + 1 > len
removeAt(s, i) ==
  IF i > s.len
    THEN [s EXCEPT !.panic = TRUE]
    ELSE [s EXCEPT !.arr = [j \in 1..Len(s.arr) |->
                              IF j >= i /\ j < s.len THEN s.arr[j + 1] ELSE s.arr[j]],
                   !.len = s.len - 1]

\* Memdis.Del: the first map holding key is removed
Del(key) ==
  /\ ~Crashed
  /\ UNCHANGED <<memgodbVars, callVars>>
  /\ UNCHANGED timeNow
  /\ IF firstWith(key) = 0
       THEN /\ ret' = Return("Del", "keynotfound", << >>)
            /\ UNCHANGED storage
       ELSE LET s == removeAt([arr |-> storage, len |-> Len(storage), panic |-> FALSE],
                              firstWith(key)) IN
            /\ storage' = SubSeq(s.arr, 1, s.len)
            /\ ret' = Return("Del", "ok", << >>)

\* Memdis.Clear: md.storage = md.storage[:0]
Clear ==
  /\ ~Crashed
  /\ UNCHANGED <<memgodbVars, callVars>>
  /\ UNCHANGED timeNow
  /\ storage' = << >>
  /\ ret' = Return("Clear", "ok", << >>)

\* the range loop of OverWrite / OverWriteWithKey: `range md.storage` fixes
\* the array and the length n when the loop starts, and each pass reads
\* its map from that array, which the removals of earlier passes have
\* already shifted
RECURSIVE overWriteLoop(_, _, _, _)
overWriteLoop(key, n, i, s) ==
  IF i > n \/ s.panic THEN s
  ELSE overWriteLoop(key, n, i + 1,
                     IF key \in DOMAIN s.arr[i]
                       THEN removeAt([s EXCEPT !.isFound = TRUE], i)
                       ELSE s)

\* OverWrite and OverWriteWithKey: every map found with key is removed and a
\* map newKey -> (value, expiry) is appended
overWrite(op, key, newKey, value, ttl) ==
  LET s == overWriteLoop(key, Len(storage), 1,
                         [arr |-> storage, len |-> Len(storage),
                          isFound |-> FALSE, panic |-> FALSE]) IN
  IF s.panic
    THEN /\ storage' = SubSeq(s.arr, 1, s.len)
         /\ ret' = Return(op, "panic", << >>)
  ELSE IF ~s.isFound
    THEN /\ ret' = Return(op, "keynotfound", << >>)
         /\ UNCHANGED storage
  ELSE LET fs == newKey :> MemdisData(value, timeNow + ttl) IN
       /\ storage' = Append(SubSeq(s.arr, 1, s.len), fs)
       /\ ret' = Return(op, "ok", << >>)

\* Memdis.OverWrite
OverWrite(key, value, ttl) ==
  /\ ~Crashed
  /\ UNCHANGED <<memgodbVars, callVars>>
  /\ UNCHANGED timeNow
  /\ overWrite("OverWrite", key, key, value, ttl)

\* Memdis.OverWriteWithKey
OverWriteWithKey(prevkey, newKey, value, ttl) ==
  /\ ~Crashed
  /\ UNCHANGED <<memgodbVars, callVars>>
  /\ UNCHANGED timeNow
  /\ overWrite("OverWriteWithKey", prevkey, newKey, value, ttl)

\* the orders in which `for key := range cache` may visit the keys of a map
orderings(K) ==
  {f \in [1..Cardinality(K) -> K] : \A a, b \in 1..Cardinality(K) : f[a] = f[b] => a = b}

\* the slices Memdis.Keys may return for the maps st[i..]
RECURSIVE keysFrom(_, _)
keysFrom(st, i) ==
  IF i > Len(st) THEN {<< >>}
  ELSE {a \o b : a \in orderings(DOMAIN st[i]), b \in keysFrom(st, i + 1)}

\* Memdis.Keys
Keys ==
  /\ ~Crashed
  /\ \E keys \in keysFrom(storage, 1) : ret' = Return("Keys", "ok", keys)
  /\ UNCHANGED <<memgodbVars, memdisVars, callVars>>

\* time passes
Tick ==
  /\ ~Crashed
  /\ timeNow < MaxTime
  /\ timeNow' = timeNow + 1
  /\ UNCHANGED <<memgodbVars, callVars, storage, ret>>

NextMemdis ==
  \/ \E call \in SetCalls : Set(call[1], call[2], call[3])
  \/ \E data \in SetManyData : SetMany(data)
  \/ \E key \in MdKeys : Get(key)
  \/ \E key \in MdKeys : Del(key)
  \/ Clear
  \/ Size
  \/ \E call \in OverWriteCalls : OverWrite(call[1], call[2], call[3])
  \/ \E call \in OverWriteWithKeyCalls :
       OverWriteWithKey(call[1], call[2], call[3], call[4])
  \/ Keys
  \/ Tick

SpecMemdis == Init /\ [][NextMemdis]_vars

\* ------------------------------------- Insert.One from two goroutines
\* MemgodbStorage is a package variable and no call of the package takes a
\* lock.  `MemgodbStorage = append(MemgodbStorage, objMap)` is, for the
\* memory, three things: the slice header is read, the element is written
\* (into the array of that header when it has room, else into a new array
\* that starts as a copy), and the new header is written back.  A goroutine
\* takes them as three steps; the header is read and written in one piece
\* (a torn header would add outcomes, it would remove none).
\*
\* The callers are the two goroutines of one Go ... Join round, and nothing
\* else touches the store during a round.  A goroutine that found room
\* therefore writes into the array MemgodbStorage still points to: the array
\* is only replaced by a goroutine that read a full header, and a header is
\* full for both or was written by the other goroutine's finished call.

\* the calls handed to the goroutines: <<name of the handle, obj>>
GoCalls == {<<"users", John>>, <<"orders", Jane>>}

AllIdle == \A t \in Threads : thread[t].pc = "idle"

\* `go c.Insert(obj).One()` for every goroutine
Go(calls) ==
  /\ ~Crashed
  /\ AllIdle
  /\ storageLen + Cardinality(Threads) <= MaxStore
  /\ clock + Cardinality(Threads) <= MaxClock
  /\ thread' = [t \in Threads |->
                  [Idle EXCEPT !.pc = "decode", !.col = calls[t][1], !.obj = calls[t][2]]]
  /\ before' = MemgodbStorage
  /\ UNCHANGED <<memgodbVars, memdisVars, builder, ret>>

\* Insert.One up to `objMap["updatedAt"] = nil`: objMap is local
Decode(t) ==
  /\ ~Crashed
  /\ thread[t].pc = "decode"
  /\ thread' = [thread EXCEPT
                  ![t].objMap = stored(thread[t].col, thread[t].obj, clock + 1),
                  ![t].pc = "load"]
  /\ clock' = clock + 1
  /\ UNCHANGED <<storageArr, storageLen, persistMemgodbData, file,
                 memdisVars, before, builder, ret>>

\* append reads the header of MemgodbStorage
Load(t) ==
  /\ ~Crashed
  /\ thread[t].pc = "load"
  /\ thread' = [thread EXCEPT ![t].arr = storageArr, ![t].len = storageLen,
                              ![t].pc = "append"]
  /\ UNCHANGED <<memgodbVars, memdisVars, before, builder, ret>>

\* append writes the element: in place behind the length it read, or into a
\* new array of its own
AppendElem(t) ==
  /\ ~Crashed
  /\ thread[t].pc = "append"
  /\ LET me == thread[t] IN
     IF me.len < Len(me.arr)
       THEN /\ storageArr' = [storageArr EXCEPT ![me.len + 1] = me.objMap]
            /\ thread' = [thread EXCEPT ![t].len = me.len + 1, ![t].fresh = FALSE,
                                        ![t].pc = "store"]
       ELSE LET s == appendSlice(me.arr, me.len, <<me.objMap>>) IN
            /\ UNCHANGED storageArr
            /\ thread' = [thread EXCEPT ![t].arr = s.arr, ![t].len = s.len,
                                        ![t].fresh = TRUE, ![t].pc = "store"]
  /\ UNCHANGED <<storageLen, persistMemgodbData, file, clock,
                 memdisVars, before, builder, ret>>

\* the header append returned is assigned to MemgodbStorage and One returns
Store(t) ==
  /\ ~Crashed
  /\ thread[t].pc = "store"
  /\ storageArr' = IF thread[t].fresh THEN thread[t].arr ELSE storageArr
  /\ storageLen' = thread[t].len
  /\ thread' = [thread EXCEPT ![t].pc = "done"]
  /\ ret' = Return("InsertOne", "ok", <<thread[t].objMap>>)
  /\ UNCHANGED <<persistMemgodbData, file, clock, memdisVars, before, builder>>

AllDone == \A t \in Threads : thread[t].pc = "done"

\* both calls have returned and the caller goes on
Join ==
  /\ ~Crashed
  /\ AllDone
  /\ thread' = [t \in Threads |-> Idle]
  /\ before' = << >>
  /\ UNCHANGED <<memgodbVars, memdisVars, builder, ret>>

NextConc ==
  \/ \E call \in GoCalls : AllIdle /\ InsertOne(call[1], call[2])
  \/ \E col \in Collections : AllIdle /\ DeleteAll(col, NIL)
  \/ \E calls \in [Threads -> GoCalls] : Go(calls)
  \/ \E t \in Threads : Decode(t)
  \/ \E t \in Threads : Load(t)
  \/ \E t \in Threads : AppendElem(t)
  \/ \E t \in Threads : Store(t)
  \/ Join

SpecConc == Init /\ [][NextConc]_vars

\* ------------------------------------------- builders held by a caller
\* c.Delete(filter) and c.Update(filter, obj) decode the whole
\* MemgodbStorage into objMaps when they are called; One / All then walk
\* objMaps and act on the MemgodbStorage of that later moment, at the indexes
\* of objMaps.  The caller holds one builder at a time and drops it after
\* the terminal call.

\* the filters and the patch handed to the held builders
HeldFilters == {[name |-> Str("John")], [age |-> Float(35)], NIL}
HeldPatch == [age |-> Float(40)]

\* the fields Collection.Delete and Collection.Update fill in alike
held(kind, col, filter, update) ==
  [kind |-> kind, col |-> col, filter |-> filter, update |-> update,
   isNil |-> objMapsNil(filter),
   objMaps |-> IF objMapsNil(filter) THEN << >> ELSE decodeMany(MemgodbStorage)]

\* c.Delete(filter), kept for later
Delete(col, filter) ==
  /\ ~Crashed
  /\ builder = NoBuilder
  /\ builder' = held("delete", col, filter, NilRec)
  /\ UNCHANGED <<memgodbVars, memdisVars, thread, before, ret>>

\* c.Update(filter, obj), kept for later
Update(col, filter, obj) ==
  /\ ~Crashed
  /\ builder = NoBuilder
  /\ builder' = held("update", col, filter, obj)
  /\ UNCHANGED <<memgodbVars, memdisVars, thread, before, ret>>

\* d.One() on the held *Delete
HeldDeleteOne ==
  /\ ~Crashed
  /\ builder.kind = "delete"
  /\ IF builder.isNil
       THEN /\ ret' = Return("DeleteOne", "nilfilter", << >>)
            /\ UNCHANGED <<storageArr, storageLen>>
       ELSE LET s == deleteRun(builder.objMaps, builder.col, builder.filter, TRUE) IN
            /\ storageArr' = s.arr
            /\ storageLen' = s.len
            /\ ret' = Return("DeleteOne", deleteErr(s), << >>)
  /\ builder' = NoBuilder
  /\ UNCHANGED <<persistMemgodbData, file, clock, memdisVars, thread, before>>

\* d.All() on the held *Delete
HeldDeleteAll ==
  /\ ~Crashed
  /\ builder.kind = "delete"
  /\ IF builder.isNil
       THEN /\ ret' = Return("DeleteAll", "ok", << >>)
            /\ storageLen' = 0
            /\ UNCHANGED storageArr
       ELSE LET s == deleteRun(builder.objMaps, builder.col, builder.filter, FALSE) IN
            /\ storageArr' = s.arr
            /\ storageLen' = s.len
            /\ ret' = Return("DeleteAll", deleteErr(s), << >>)
  /\ builder' = NoBuilder
  /\ UNCHANGED <<persistMemgodbData, file, clock, memdisVars, thread, before>>

\* u.One() on the held *Update
HeldUpdateOne ==
  /\ ~Crashed
  /\ builder.kind = "update"
  /\ builder' = NoBuilder
  /\ UNCHANGED <<persistMemgodbData, file, memdisVars, thread, before>>
  /\ IF builder.isNil
       THEN /\ ret' = Return("UpdateOne", "nilfilter", << >>)
            /\ UNCHANGED <<storageArr, storageLen, clock>>
       ELSE LET objMaps == builder.objMaps
                col == builder.col
                filter == builder.filter
                patch == builder.update
                h == firstHit(objMaps, col, filter) IN
            IF h = 0
              THEN /\ ret' = Return("UpdateOne", "notfound", << >>)
                   /\ UNCHANGED <<storageArr, storageLen, clock>>
              ELSE /\ Room(0)
                   /\ \E key \in matchKeys(objMaps[h], col, filter),
                         updateValue \in Range(patch) \cup {Null} :
                        /\ (Range(patch) # {}) => updateValue \in Range(patch)
                        /\ LET s == updateLoop(objMaps, 1, col, filter, Range(patch) = {},
                                               key, updateValue,
                                               [arr |-> storageArr, len |-> storageLen,
                                                notFound |-> TRUE, counter |-> 0,
                                                now |-> clock + 1, panic |-> FALSE]) IN
                             /\ storageArr' = s.arr
                             /\ storageLen' = s.len
                             /\ ret' = Return("UpdateOne",
                                             IF s.panic THEN "panic" ELSE "ok", << >>)
                   /\ clock' = clock + 1

\* the calls made through other handles while the builder is held
HeldInserts == {<<"users", John>>, <<"orders", Jane>>}

NextHeld ==
  \/ \E call \in HeldInserts : InsertOne(call[1], call[2])
  \/ \E filter \in HeldFilters : DeleteAll("users", filter)
  \/ UpdateOne("orders", [age |-> Float(35)], HeldPatch)
  \/ \E filter \in HeldFilters : Delete("users", filter)
  \/ \E filter \in HeldFilters : Update("users", filter, HeldPatch)
  \/ HeldDeleteOne
  \/ HeldDeleteAll
  \/ HeldUpdateOne

SpecHeld == Init /\ [][NextHeld]_vars

\* ================================================================ claims
\* the matching rule of the specification: the record belongs to the handle's
\* collection and carries every (key, value) pair of the predicate
Matches(rec, col, P) ==
  /\ "colName" \in DOMAIN rec
  /\ rec["colName"] = Str(col)
  /\ \A k \in DOMAIN P : k \in DOMAIN rec /\ rec[k] = P[k]

\* positions of the store whose records match P in collection col
MatchIdx(S, col, P) == {i \in 1..Len(S) : Matches(decode(S[i]), col, P)}

Min(I) == CHOOSE i \in I : \A j \in I : i <= j

\* S without its i-th element
RemoveAt(S, i) == SubSeq(S, 1, i - 1) \o SubSeq(S, i + 1, Len(S))

\* the elements of S at the positions in I, in order
RECURSIVE Pick(_, _, _)
Pick(S, I, i) ==
  IF i > Len(S) THEN << >>
  ELSE (IF i \in I THEN <<S[i]>> ELSE << >>) \o Pick(S, I, i + 1)

\* C1: every record returned by find(P).first() or find(P).all() carries
\* every (key, value) pair of P, for predicates of one key or several
C1_Conjunction ==
  [][\A col \in Collections, filter \in Filters :
       (FindFirst(col, filter) \/ FindAll(col, filter))
         => \A i \in 1..Len(ret'.res) :
              \A k \in DOMAIN filter :
                k \in DOMAIN ret'.res[i] /\ ret'.res[i][k] = filter[k]]_vars

\* C2: delete(P).one() with a matching P removes exactly the first match and
\* leaves every other record in place, in the same order
C2_DeleteOneRemovesFirstMatch ==
  [][\A col \in Collections, filter \in Filters :
       (DeleteOne(col, filter) /\ MatchIdx(MemgodbStorage, col, filter) # {})
         => MemgodbStorage' =
              RemoveAt(MemgodbStorage, Min(MatchIdx(MemgodbStorage, col, filter)))]_vars

\* C3: delete(P).all() with a matching P removes every record matching P in
\* the handle's collection and keeps every other record once, in order
C3_DeleteAllRemovesMatches ==
  [][\A col \in Collections, filter \in Filters :
       (DeleteAll(col, filter) /\ MatchIdx(MemgodbStorage, col, filter) # {})
         => MemgodbStorage' =
              Pick(MemgodbStorage,
                   (1..storageLen) \ MatchIdx(MemgodbStorage, col, filter), 1)]_vars

\* C4: update(P, patch).one() changes the first match only: the store keeps
\* its length and order, every other record reads the same before and after
\* (updatedAt included) and the first match gets a non-null updatedAt
C4_UpdateOneChangesFirstOnly ==
  [][\A col \in Collections, filter \in Filters, patch \in Patches :
       (UpdateOne(col, filter, patch) /\ MatchIdx(MemgodbStorage, col, filter) # {})
         => LET first == Min(MatchIdx(MemgodbStorage, col, filter)) IN
            /\ storageLen' = storageLen
            /\ \A i \in 1..storageLen :
                 i # first => decode(MemgodbStorage'[i]) = decode(MemgodbStorage[i])
            /\ decode(MemgodbStorage'[first])["updatedAt"] # Null]_vars

\* C5: update(P, patch).one() gives the first match the value v at field k for
\* one pair (k, v) of patch and keeps its other fields, updatedAt excepted
C5_UpdateOneAppliesPatchPair ==
  [][\A col \in Collections, filter \in Filters, patch \in Patches :
       (/\ UpdateOne(col, filter, patch)
        /\ DOMAIN patch # {}
        /\ MatchIdx(MemgodbStorage, col, filter) # {})
         => LET first == Min(MatchIdx(MemgodbStorage, col, filter))
                old == decode(MemgodbStorage[first])
                new == decode(MemgodbStorage'[first]) IN
            \E k \in DOMAIN patch :
              /\ DOMAIN new = DOMAIN old \cup {k}
              /\ new[k] = patch[k]
              /\ \A x \in DOMAIN old \ {k, "updatedAt"} : new[x] = old[x]]_vars

\* C6: find(P).all() returns the records matching P in store order, each one
\* exactly once, so as many as there are matching records
C6_FindAllEachMatchOnce ==
  [][\A col \in Collections, filter \in Filters :
       (FindAll(col, filter) /\ MatchIdx(MemgodbStorage, col, filter) # {})
         => /\ ret'.err = "ok"
            /\ Len(ret'.res) = Cardinality(MatchIdx(MemgodbStorage, col, filter))
            /\ ret'.res = Pick(decodeMany(MemgodbStorage),
                               MatchIdx(MemgodbStorage, col, filter), 1)]_vars

\* C7: find(P).first() returns the matching record of lowest store position,
\* which is the first element of find(P).all(), and fails when nothing matches
C7_FindFirstLowestMatch ==
  [][\A col \in Collections, filter \in Filters :
       FindFirst(col, filter)
         => IF MatchIdx(MemgodbStorage, col, filter) # {}
              THEN /\ ret'.err = "ok"
                   /\ ret'.res = <<decode(MemgodbStorage[
                                     Min(MatchIdx(MemgodbStorage, col, filter))])>>
                   /\ ret'.res[1] = Head(FilterAll(col, filter).res)
              ELSE /\ ret'.err # "ok"
                   /\ ret'.res = << >>]_vars

\* C8: find(P).first() and find(P).all() through a handle never return a
\* record whose collection field differs from the handle's identifier,
\* whatever the store holds
C8_ReadsScopedToCollection ==
  \A col \in Collections, filter \in Filters :
    /\ \A i \in 1..Len(FilterFirst(col, filter).res) :
         FilterFirst(col, filter).res[i]["colName"] = Str(col)
    /\ \A i \in 1..Len(FilterAll(col, filter).res) :
         FilterAll(col, filter).res[i]["colName"] = Str(col)

\* a find returned records while the store holds a record of another
\* collection with the same name and age
C8_Witness ==
  /\ ret.op \in {"FindFirst", "FindAll"}
  /\ ret.err = "ok"
  /\ Len(ret.res) >= 1
  /\ \E i \in 1..storageLen :
       /\ MemgodbStorage[i]["colName"] # ret.res[1]["colName"]
       /\ MemgodbStorage[i]["name"] = ret.res[1]["name"]
       /\ MemgodbStorage[i]["age"] = ret.res[1]["age"]

\* C9: insertOne(R) appends one record with R's (normalized) fields, the
\* handle's collection, a non-null id and createdAt and a null updatedAt;
\* the records already stored keep their place, and find(nil).all() then
\* contains the new record
C9_InsertOneAppends ==
  [][(ret'.op = "InsertOne" /\ ret'.err = "ok")
       => \A col \in Collections, obj \in InputRecords :
            (<<col, obj>> \in InsertCalls /\ InsertOne(col, obj))
              => LET rec == MemgodbStorage'[storageLen'] IN
                 /\ MemgodbStorage' = Append(MemgodbStorage, rec)
                 /\ DOMAIN rec = DOMAIN obj \cup SystemKeys
                 /\ \A k \in DOMAIN obj \ SystemKeys : rec[k] = decode(obj)[k]
                 /\ rec["colName"] = Str(col)
                 /\ rec["id"] # Null
                 /\ rec["createdAt"] # Null
                 /\ rec["updatedAt"] = Null
                 /\ \E j \in 1..Len(FilterAll(col, NIL)'.res) :
                      FilterAll(col, NIL)'.res[j] = decode(rec)]_vars

\* an insert through "orders" of a record that names another collection,
\* made into a store that already held a record
C9_Witness ==
  /\ ret.op = "InsertOne"
  /\ ret.err = "ok"
  /\ storageLen >= 2
  /\ MemgodbStorage[storageLen] = ret.res[1]
  /\ ret.res[1]["colName"] = Str("orders")
  /\ ret.res[1]["name"] = Str("Jane")

\* the id of a stored record as it reads after the JSON round trip
idOf(rec) == IF "id" \in DOMAIN rec THEN jsonValue(rec["id"]) ELSE Null

\* C10: no two records of the Document Store carry the same id
C10_UniqueIds ==
  \A i, j \in 1..storageLen :
    i # j => idOf(MemgodbStorage[i]) # idOf(MemgodbStorage[j])

\* C11: after delete(P).one() succeeds on a non-nil P that matches exactly one
\* record of the handle's collection, find(P).first() on the same handle
\* fails with "record not found" and returns no record
C11_DeleteOneThenFindFails ==
  [][(ret'.op = "DeleteOne" /\ ret'.err = "ok")
       => \A col \in Collections, filter \in Filters :
            (/\ DeleteOne(col, filter)
             /\ Cardinality(MatchIdx(MemgodbStorage, col, filter)) = 1)
              => /\ FilterFirst(col, filter)'.err = "notfound"
                 /\ FilterFirst(col, filter)'.res = << >>]_vars

\* the identifier the specification gives each name of Names: lower-cased,
\* with a trailing "s" appended unless already present
Identifier(name) ==
  IF name \in {<<"u","s","e","r">>, <<"U","s","e","r","s">>} THEN "users" ELSE "orders"

\* rec is among the records of the result r of a find
Returned(r, rec) == \E j \in 1..Len(r.res) : r.res[j] = rec

\* the predicates of preds whose every (key, value) pair rec carries
Satisfied(preds, rec) ==
  {P \in preds : \A k \in DOMAIN P : k \in DOMAIN rec /\ rec[k] = P[k]}

\* the last call was Insert(obj).One() through the handle made from name
InsertedThrough(name) ==
  /\ ret.op = "InsertOne"
  /\ ret.err = "ok"
  /\ \E obj \in InputRecords : ret.res = <<stored(Collection(name), obj, clock)>>

\* C12 as stated: a record inserted through one name is returned by find
\* through every name with the same identifier, and by no find (nil predicate
\* included) through a name with another identifier
C12_NamesAddressSameRecords ==
  \A n1, n2 \in Names :
    InsertedThrough(n1)
      => LET rec == decode(ret.res[1]) IN
         /\ Collection(n2) = Identifier(n2)
         /\ IF Identifier(n2) = Identifier(n1)
              THEN \A P \in Satisfied(Filters, rec) :
                     /\ Returned(FilterAll(Collection(n2), P), rec)
                     /\ FilterFirst(Collection(n2), P).err = "ok"
              ELSE \A P \in Filters \cup {NIL} :
                     /\ ~Returned(FilterAll(Collection(n2), P), rec)
                     /\ ~Returned(FilterFirst(Collection(n2), P), rec)

\* C12, amended: the same for the finds with a non-nil predicate; find(nil)
\* .all() returns the record through every handle
C12_NamesAddressSameRecordsNonNil ==
  \A n1, n2 \in Names :
    InsertedThrough(n1)
      => LET rec == decode(ret.res[1]) IN
         /\ Collection(n2) = Identifier(n2)
         /\ Returned(FilterAll(Collection(n2), NIL), rec)
         /\ IF Identifier(n2) = Identifier(n1)
              THEN \A P \in Satisfied(Filters, rec) :
                     /\ Returned(FilterAll(Collection(n2), P), rec)
                     /\ FilterFirst(Collection(n2), P).err = "ok"
              ELSE \A P \in Filters :
                     /\ ~Returned(FilterAll(Collection(n2), P), rec)
                     /\ ~Returned(FilterFirst(Collection(n2), P), rec)

\* a record was inserted into "users" while the store holds a record of
\* "orders" with the same name and age
C12_Witness ==
  /\ ret.op = "InsertOne"
  /\ ret.err = "ok"
  /\ ret.res[1]["colName"] = Str(Collection(<<"u","s","e","r">>))
  /\ MemgodbStorage[storageLen] = ret.res[1]
  /\ \E i \in 1..storageLen :
       /\ MemgodbStorage[i]["colName"] = Str(Collection(<<"O","r","d","e","r">>))
       /\ MemgodbStorage[i]["name"] = ret.res[1]["name"]
       /\ MemgodbStorage[i]["age"] = ret.res[1]["age"]

\* C13: find(P).all() and delete(P).all() with a non-nil P that matches no
\* record of the handle's collection fail with "record not found" and leave
\* MemgodbStorage as it is, in every state, the never-populated store included
C13_NoMatchIsNotFound ==
  [][\A col \in Collections, filter \in Filters :
       (/\ FindAll(col, filter) \/ DeleteAll(col, filter)
        /\ MatchIdx(MemgodbStorage, col, filter) = {})
         => /\ ret'.err = "notfound"
            /\ MemgodbStorage' = MemgodbStorage]_vars

\* MemgodbStorage of a new process after LoadDefault, with the file as it is
\* now: what the call returns and the records the store then holds
LoadFresh ==
  LET r == loadDefault(<< >>, 0) IN
  [err |-> r.err, store |-> SubSeq(r.arr, 1, r.len)]

\* C14 as stated: for every store content, the never-populated store
\* included, save() and then load() into a fresh store succeeds and gives a
\* store that reads as the saved one (same records, same fields, same order)
C14_SnapshotRoundTrip ==
  ret.op = "Persist"
    => /\ ret.err = "ok"
       /\ LoadFresh.err = "ok"
       /\ decodeMany(LoadFresh.store) = decodeMany(MemgodbStorage)

\* C14, amended: the same for every store that has held a record in this
\* process; for a never-populated store save() writes nothing, and load()
\* then fails unless the file was there before
C14_SnapshotRoundTripNonNil ==
  ret.op = "Persist"
    => /\ ret.err = "ok"
       /\ ~StorageIsNil
            => /\ LoadFresh.err = "ok"
               /\ LoadFresh.store = decodeMany(MemgodbStorage)
               /\ decodeMany(LoadFresh.store) = decodeMany(MemgodbStorage)
       /\ (StorageIsNil /\ ~file.exists) => LoadFresh.err = "nofile"

\* save() was called on a store of two records behind which the backing
\* array still holds a deleted one
C14_Witness ==
  /\ ret.op = "Persist"
  /\ storageLen = 2
  /\ Len(storageArr) > 2
  /\ storageArr[3] # NilRec
  /\ MemgodbStorage[1]["colName"] # MemgodbStorage[2]["colName"]
  /\ file.data = decodeMany(MemgodbStorage)

\* C15: save() on a store of zero records, never populated or emptied by
\* deletes, succeeds and leaves the snapshot file as it was; on a store with
\* records it replaces the snapshot with the whole current store
C15_SaveOnEmptyIsNoOp ==
  [][Persist
       => /\ ret'.err = "ok"
          /\ IF storageLen = 0
               THEN file' = file
               ELSE file' = [exists |-> TRUE, data |-> decodeMany(MemgodbStorage)]]_vars

\* normalization of the element x fails: it is null or not a record
FailsNormalization(x) == IsNil(x) \/ IsNotObject(x)

\* C16: Many fails and leaves the store as it is when Insert was given a
\* non-nil value or when normalization of an element fails; otherwise it
\* appends every element in order and returns one stored record per element
C16_InsertManyAllOrNothing ==
  [][(ret'.op = "InsertMany")
       => \A col \in Collections, obj \in ManyObjs, arr \in ManyArrays :
            InsertMany(col, obj, arr)
              => IF ~IsNil(obj)
                   THEN /\ ret'.err = "conflict"
                        /\ MemgodbStorage' = MemgodbStorage
                 ELSE IF \E j \in 1..Len(arr) : FailsNormalization(arr[j])
                   THEN /\ ret'.err # "ok"
                        /\ MemgodbStorage' = MemgodbStorage
                 ELSE /\ ret'.err = "ok"
                      /\ Len(ret'.res) = Len(arr)
                      /\ MemgodbStorage' = MemgodbStorage \o ret'.res
                      /\ \A j \in 1..Len(arr) :
                           ret'.res[j] = stored(col, arr[j], clock + j)]_vars

\* C17: Set(k, v) on a store that holds k in some entry fails with
\* errKeyExists and leaves storage, Get(k) and Size() as they were; on a store
\* without k it appends one entry, after which Get(k) returns v and Size()
\* is one larger
C17_SetFailsOnExistingKey ==
  [][(ret'.op = "Set")
       => \A call \in SetCalls :
            Set(call[1], call[2], call[3])
              => IF \E i \in 1..Len(storage) : call[1] \in DOMAIN storage[i]
                   THEN /\ ret'.err = "keyexists"
                        /\ storage' = storage
                        /\ get(call[1])' = get(call[1])
                        /\ get(call[1]).err = "ok"
                        /\ size' = size
                   ELSE /\ ret'.err = "ok"
                        /\ Len(storage') = Len(storage) + 1
                        /\ SubSeq(storage', 1, Len(storage)) = storage
                        /\ DOMAIN storage'[Len(storage')] = {call[1]}
                        /\ get(call[1])' = [err |-> "ok", res |-> <<call[2]>>]
                        /\ size' = size + 1]_vars

\* Set failed on a store of two entries that holds both keys, "k1" with the
\* value of an earlier call
C17_Witness ==
  /\ ret.op = "Set"
  /\ ret.err = "keyexists"
  /\ Len(storage) = 2
  /\ get("k1") = [err |-> "ok", res |-> <<V1>>]
  /\ get("k2").err = "ok"

\* C18: in every state reached through Set, SetMany, Del, Clear, OverWrite
\* and OverWriteWithKey, a successful Del(k) makes the next Get(k) fail with
\* errKeyNotFound, and Del(k) on a store without k fails with errKeyNotFound
\* and leaves storage as it was
C18_DelThenGetFails ==
  [][(ret'.op = "Del")
       => \A key \in MdKeys :
            Del(key)
              => /\ ret'.err = "ok" => get(key)' = [err |-> "keynotfound", res |-> << >>]
                 /\ (\A i \in 1..Len(storage) : key \notin DOMAIN storage[i])
                      => /\ ret'.err = "keynotfound"
                         /\ storage' = storage]_vars

\* C19: after any sequence of Set, SetMany, Del, Clear, OverWrite and
\* OverWriteWithKey, Size() is the number of keys held in storage, which is
\* the number of keys Keys() returns, and it is 0 after Clear
C19_SizeCountsKeys ==
  /\ \A keys \in keysFrom(storage, 1) : Len(keys) = size
  /\ ret.op = "Clear" => size = 0

\* s is t or the beginning of t
IsPrefix(s, t) == Len(s) <= Len(t) /\ SubSeq(t, 1, Len(s)) = s

\* C20: the expiry timestamp is recorded but never enforced: Get returns the
\* value of a key whose timestamp has passed, the passage of time changes
\* neither storage nor the answer of any Get, and an entry leaves storage
\* only in a Del, Clear, OverWrite or OverWriteWithKey
C20_ExpiryNeverEnforced ==
  [][/\ \A key \in MdKeys :
          (keyExists(key) /\ storage[firstWith(key)][key].Duration < timeNow)
            => get(key) = [err |-> "ok", res |-> <<storage[firstWith(key)][key].Value>>]
     /\ timeNow' # timeNow
          => /\ storage' = storage
             /\ \A key \in MdKeys : get(key)' = get(key)
     /\ ~IsPrefix(storage, storage')
          => /\ timeNow' = timeNow
             /\ ret'.op \in {"Del", "Clear", "OverWrite", "OverWriteWithKey"}]_vars

\* Get returned the value stored under "k1" at time 0 with a TTL of 1, at
\* time 2
C20_Witness ==
  /\ ret = [op |-> "Get", err |-> "ok", res |-> <<V1>>]
  /\ timeNow = 2
  /\ storage = <<"k1" :> MemdisData(V1, 1)>>

\* C23: in every state reached from the empty store through Set, SetMany,
\* Del, Clear, OverWrite and OverWriteWithKey no key is held by more than one
\* entry of storage, and after a successful OverWriteWithKey(prev, new, v)
\* Get(new) returns v and Get(prev) fails with errKeyNotFound
C23_KeyUniqueness ==
  [][/\ \A key \in MdKeys :
          Cardinality({i \in 1..Len(storage') : key \in DOMAIN storage'[i]}) <= 1
     /\ (ret'.op = "OverWriteWithKey" /\ ret'.err = "ok")
          => \A call \in OverWriteWithKeyCalls :
               OverWriteWithKey(call[1], call[2], call[3], call[4])
                 => /\ get(call[2])' = [err |-> "ok", res |-> <<call[3]>>]
                    /\ get(call[1])' = [err |-> "keynotfound", res |-> << >>]]_vars

\* C21: when two goroutines each run Insert.One on the shared
\* MemgodbStorage, then in every interleaving of their steps, once both calls
\* have returned, the store holds both new records, its length has grown by
\* exactly two, and every record it held before is still there
C21_ConcurrentInsertsNotLost ==
  AllDone
    => /\ \A t \in Threads :
            \E i \in 1..storageLen : MemgodbStorage[i] = thread[t].objMap
       /\ storageLen = Len(before) + Cardinality(Threads)
       /\ \A j \in 1..Len(before) :
            \E i \in 1..storageLen : MemgodbStorage[i] = before[j]

\* the number of positions of S that hold rec
Count(S, rec) == Cardinality({i \in 1..Len(S) : S[i] = rec})

\* C22: a delete(P) or update(P, patch) builder that was made before other
\* calls changed the store acts, in its one() / all(), only on records that
\* match P in the handle's collection at the time of that call: every record
\* of the store that does not match is in the store afterwards, as it was
C22_StaleBuilderTouchesOnlyMatches ==
  [][((HeldDeleteOne \/ HeldDeleteAll \/ HeldUpdateOne) /\ ~IsNil(builder.filter))
       => \A i \in 1..storageLen :
            ~Matches(decode(MemgodbStorage[i]), builder.col, builder.filter)
              => Count(MemgodbStorage', MemgodbStorage[i])
                   >= Count(MemgodbStorage, MemgodbStorage[i])]_vars
====
